---- MODULE Spec2Model ----
(***************************************************************************)
(* The OAuth2 authorization-code + PKCE login flow of nodejs-demoapp.       *)
(*                                                                         *)
(* Two implementations of the flow live in the repository: the router of   *)
(* src/routes/auth.mjs (handlers Router...) and the handlers written       *)
(* inline in one of the two entry points (handlers Inline..., from         *)
(* unnamed/part_003).  The other entry point (unnamed/part_002) mounts the *)
(* router only.  Sessions are express-session sessions: every request      *)
(* works on its own copy of the record, loaded from the store when the     *)
(* request arrives and written back when the response ends, if modified.   *)
(***************************************************************************)
EXTENDS Naturals, FiniteSets

\* ---------------------------------------------------------------- bounds
MaxReqs == 2        \* requests in flight at the same time
MaxSid == 2         \* session identifiers the store ever issues
MaxVerifier == 2    \* PKCE verifiers ever generated
MaxCodes == 2       \* authorization codes the provider ever issues
MaxRequests == 4    \* requests the server ever receives

Reqs == 1..MaxReqs
Sids == 1..MaxSid
Codes == 1..MaxCodes

VARIABLES
  entry,          \* the entry point that runs: "part_002" or "part_003"
  ENTRA_APP_ID,   \* process.env.ENTRA_APP_ID is set
  WEBSITE_HOSTNAME,  \* process.env.WEBSITE_HOSTNAME is set
  AZURE_TENANT_ID,   \* process.env.AZURE_TENANT_ID is set
  store,          \* the session store: session id -> session record
  nextSid,        \* the next session identifier the store hands out
  nextVerifier,   \* the next fresh PKCE verifier
  codes,          \* the provider: code -> what it was issued for, redeemed, and
                  \* (history) the session whose callback redeemed it
  authUrls,       \* the authorization URLs a browser holds: challenge, redirect URI
  latestVerifier, \* (history) session id -> the verifier its latest /login generated
  reqs,           \* the requests in flight
  served,         \* requests received so far
  loggedOut       \* session ids on which a logout has completed

\* What the process is started with, and never changes.
config == <<entry, ENTRA_APP_ID, WEBSITE_HOSTNAME, AZURE_TENANT_ID>>

vars == <<config, store, nextSid, nextVerifier, codes, authUrls, latestVerifier, reqs,
          served, loggedOut>>

\* ------------------------------------------------------- session records
NoPkce == [verifier |-> 0, challenge |-> 0, challengeMethod |-> "undefined"]
NoUser == [account |-> "undefined", accessToken |-> 0]

\* A session object without any property set by the handlers.
EmptySession ==
  [exists |-> TRUE, pkceCodes |-> NoPkce, codeVerifier |-> 0,
   user |-> NoUser, accessToken |-> 0]

\* No session: the store holds no record, or req.session has been deleted.
NoSession == [EmptySession EXCEPT !.exists = FALSE]

\* crypto.createHash('sha256').update(codeVerifier).digest('base64url'),
\* an injective map of the verifiers into a disjoint range of challenges.
generateCodeChallenge(codeVerifier) == 100 + ((7 * codeVerifier) % 11)

\* tokenResponse of a successful exchange of code c.
TokenOf(c) == [account |-> "alice", accessToken |-> 10 + c]

\* ------------------------------------------------------------- requests
\* A response: what it is, where it goes, the query parameters of the URL it
\* redirects to, the user handed to the view it renders.
NoResponse ==
  [kind |-> "none", target |-> "none", codeChallenge |-> 0, redirectUri |-> "none",
   codeChallengeMethod |-> "undefined", state |-> 0,
   post_logout_redirect_uri |-> "none", tenant |-> "none", user |-> NoUser]
NoTokenRequest == [code |-> 0, codeVerifier |-> 0, redirectUri |-> "none"]

IdleReq ==
  [route |-> "none", handler |-> "none", pc |-> "idle", cookie |-> 0, sid |-> 0,
   session |-> NoSession, loaded |-> NoSession, code |-> 0, state |-> 0,
   tokenRequest |-> NoTokenRequest, tokenRequests |-> 0, grant |-> "none",
   logged |-> 0, response |-> NoResponse]

Routes == {"/login", "/signin", "/logout", "/account", "/protected", "/"}

\* Which handler serves a route: the entry point registers its own routes
\* before it mounts the router, and mounts the router only when the client
\* identifier is configured.
RouterHandler(route) ==
  CASE route = "/login" -> "router_login"
    [] route = "/signin" -> "router_signin"
    [] route = "/logout" -> "router_logout"
    [] route = "/account" -> "router_account"
    [] OTHER -> "notfound"

Handler(route) ==
  IF entry = "part_003"
  THEN CASE route = "/login" -> "inline_login"
         [] route = "/signin" -> "inline_signin"
         [] route = "/logout" -> "inline_logout"
         [] route = "/" -> "inline_guarded"
         [] route = "/protected" -> "inline_guarded"
         [] OTHER -> IF ENTRA_APP_ID THEN RouterHandler(route) ELSE "notfound"
  ELSE IF route = "/" THEN "root"
       ELSE IF ENTRA_APP_ID THEN RouterHandler(route) ELSE "notfound"

\* ---------------------------------------------------------------- Init
Init ==
  /\ entry \in {"part_002", "part_003"}
  /\ ENTRA_APP_ID \in BOOLEAN
  /\ WEBSITE_HOSTNAME \in (IF entry = "part_003" THEN BOOLEAN ELSE {TRUE})
  /\ AZURE_TENANT_ID \in (IF entry = "part_003" THEN BOOLEAN ELSE {TRUE})
  /\ store = [s \in Sids |-> NoSession]
  /\ nextSid = 1
  /\ nextVerifier = 1
  /\ codes = [c \in Codes |-> [challenge |-> 0, redirectUri |-> "none", redeemed |-> FALSE,
                               session |-> 0]]
  /\ authUrls = {}
  /\ latestVerifier = [s \in Sids |-> 0]
  /\ reqs = [r \in Reqs |-> IdleReq]
  /\ loggedOut = {}
  /\ served = 0

\* ------------------------------------------------- the session middleware
\* New sessions of requests in flight, which will need an identifier if saved.
Reserved == Cardinality({r \in Reqs : reqs[r].pc \in {"awaitAuthCodeUrl", "awaitToken"}
                                      /\ reqs[r].sid = 0})

\* session(): a request whose cookie names a record of the store gets a copy
\* of it; any other request gets a new, empty session.
Known(cookie) == cookie # 0 /\ store[cookie].exists
Load(cookie) == IF Known(cookie) THEN store[cookie] ELSE EmptySession

\* A request arrives in a free slot and is routed.  Up to its first await a
\* handler works on the request's own copy of the session alone, so that
\* segment is taken in one step with the load.
Receive(r, route, cookie, code, state) ==
  [IdleReq EXCEPT !.route = route, !.handler = Handler(route), !.pc = "start",
                  !.cookie = cookie, !.sid = IF Known(cookie) THEN cookie ELSE 0,
                  !.session = Load(cookie), !.loaded = Load(cookie),
                  !.code = code, !.state = state]

\* A response that has ended leaves the server before the server takes its
\* next step (releasing the slot changes nothing another request reads).
Quiet == \A q \in Reqs : reqs[q].pc \notin {"done", "unanswered"}

Free(r) ==
  /\ Quiet
  /\ reqs[r].pc = "idle"
  /\ \A q \in Reqs : q < r => reqs[q].pc # "idle"

\* A request that may store a new session needs an identifier for it.
SidAvailable(cookie) == Known(cookie) \/ nextSid + Reserved <= MaxSid

\* The end of a response: the session is written to the store when the
\* request still has one and it differs from the copy that was loaded
\* (resave: false, saveUninitialized: false).
SaveNeeded(q) == q.session.exists /\ q.session # q.loaded
SavedSid(q) == IF q.sid = 0 THEN nextSid ELSE q.sid

EndResponse(r, q, response, grant) ==
  /\ Quiet
  /\ authUrls' = IF response.kind = "redirect" /\ response.target = "authCodeUrl"
                 THEN authUrls \cup {[codeChallenge |-> response.codeChallenge,
                                      redirectUri |-> response.redirectUri]}
                 ELSE authUrls
  /\ latestVerifier' =
       IF q.handler \in {"router_login", "inline_login"}
       THEN [latestVerifier EXCEPT ![SavedSid(q)] =
               IF q.handler = "router_login" THEN q.session.pkceCodes.verifier
               ELSE q.session.codeVerifier]
       ELSE latestVerifier
  /\ LET end == [q EXCEPT !.pc = "done", !.response = response, !.grant = grant]
     IN IF SaveNeeded(q)
        THEN /\ store' = [store EXCEPT ![SavedSid(q)] = q.session]
             /\ nextSid' = IF q.sid = 0 THEN nextSid + 1 ELSE nextSid
             /\ reqs' = [reqs EXCEPT ![r] = [end EXCEPT !.sid = SavedSid(q)]]
        ELSE /\ UNCHANGED <<store, nextSid>>
             /\ reqs' = [reqs EXCEPT ![r] = end]

\* The client has its answer (or has given up on a request never answered).
Retire(r) ==
  /\ reqs[r].pc \in {"done", "unanswered"}
  /\ reqs' = [reqs EXCEPT ![r] = IdleReq]
  /\ UNCHANGED <<config, store, nextSid, nextVerifier,
                 codes, authUrls, latestVerifier, served, loggedOut>>

\* ------------------------------------------------- the identity provider
\* The browser follows an authorization redirect and the user signs in: the
\* provider issues a fresh single-use code bound to the URL's code_challenge
\* and redirect_uri.
ProviderAuthorize(authCodeUrl, c) ==
  /\ Quiet
  /\ authCodeUrl \in authUrls
  /\ codes[c].challenge = 0
  /\ \A b \in Codes : b < c => codes[b].challenge # 0
  /\ codes' = [codes EXCEPT ![c] = [challenge |-> authCodeUrl.codeChallenge,
                                    redirectUri |-> authCodeUrl.redirectUri,
                                    redeemed |-> FALSE, session |-> 0]]
  /\ UNCHANGED <<config, store, nextSid, nextVerifier,
                 authUrls, latestVerifier, reqs, served, loggedOut>>

\* The codes a callback can carry: the codes issued so far, and a made-up one.
Issued(code) == IF code = 0 THEN TRUE ELSE codes[code].challenge # 0

\* The token endpoint's verdict on a token request: the code must have been
\* issued, not redeemed yet, the redirect URI must be the one of the
\* authorization request and the verifier must hash to its challenge.
Grant(tokenRequest) ==
  IF /\ tokenRequest.code \in Codes
     /\ codes[tokenRequest.code].challenge # 0
     /\ ~codes[tokenRequest.code].redeemed
     /\ tokenRequest.redirectUri = codes[tokenRequest.code].redirectUri
     /\ tokenRequest.codeVerifier # 0
     /\ generateCodeChallenge(tokenRequest.codeVerifier)
          = codes[tokenRequest.code].challenge
  THEN "ok" ELSE "invalid_grant"

\* msalApp.acquireTokenByCode settles: with the provider's verdict, or with a
\* network failure.
Outcomes(tokenRequest) == {Grant(tokenRequest), "network_error"}

Redeem(tokenRequest, outcome, sid) ==
  IF outcome = "ok"
  THEN [codes EXCEPT ![tokenRequest.code].redeemed = TRUE,
                     ![tokenRequest.code].session = sid]
  ELSE codes

\* ------------------------------------------------ src/routes/auth.mjs
Redirect(target) == [NoResponse EXCEPT !.kind = "redirect", !.target = target]
Render(view, user) == [NoResponse EXCEPT !.kind = "render", !.target = view, !.user = user]
Send(body) == [NoResponse EXCEPT !.kind = "send", !.target = body]
AccountOnly(user) == [user EXCEPT !.accessToken = 0]

\* The router's redirect URI, in /login and in /signin: process.env.AUTH_REDIRECT_URI.
AUTH_REDIRECT_URI == "process.env.AUTH_REDIRECT_URI"

\* The router's guard: req.session?.user?.account.
ensureAuthenticated(session) == session.exists /\ session.user.account # "undefined"

\* GET /login up to the call of getAuthCodeUrl: a fresh PKCE pair is
\* generated and set on the session.
RouterLoginPkce(session, verifier) ==
  [session EXCEPT !.pkceCodes =
     [verifier |-> verifier, challenge |-> generateCodeChallenge(verifier),
      challengeMethod |-> "S256"]]

RouterLoginStart(r, cookie) ==
  /\ Free(r)
  /\ served < MaxRequests
  /\ served' = served + 1
  /\ Handler("/login") = "router_login"
  /\ SidAvailable(cookie)
  /\ nextVerifier <= MaxVerifier
  /\ reqs' = [reqs EXCEPT ![r] =
                [Receive(r, "/login", cookie, 0, 0) EXCEPT
                   !.session = RouterLoginPkce(Load(cookie), nextVerifier),
                   !.pc = "awaitAuthCodeUrl"]]
  /\ nextVerifier' = nextVerifier + 1
  /\ UNCHANGED <<config, store, nextSid, codes, authUrls, latestVerifier, loggedOut>>

\* getAuthCodeUrl settles: redirect to the authorization URL, or the error page.
RouterLoginResponse(session, ok) ==
  IF ok
  THEN [Redirect("authCodeUrl") EXCEPT
          !.redirectUri = AUTH_REDIRECT_URI,
          !.codeChallenge = session.pkceCodes.challenge,
          !.codeChallengeMethod = session.pkceCodes.challengeMethod]
  ELSE Render("error", AccountOnly(session.user))

RouterLoginRespond(r, ok) ==
  /\ reqs[r].pc = "awaitAuthCodeUrl"
  /\ reqs[r].handler = "router_login"
  /\ EndResponse(r, reqs[r], RouterLoginResponse(reqs[r].session, ok), "none")
  /\ UNCHANGED <<config, nextVerifier, codes, served, loggedOut>>

\* GET /signin up to the call of acquireTokenByCode.  Reading
\* req.session.pkceCodes.verifier throws when the session has no pkceCodes:
\* the async handler's promise rejects outside its try block, nothing
\* handles the rejection and the request is never answered.
\* A token request whose redirect URI is built from the request's host.
RouterTokenRequestFromHost(code, session) ==
  [code |-> code, codeVerifier |-> session.pkceCodes.verifier,
   redirectUri |-> "https://host/signin"]

RouterTokenRequest(code, session) ==
  [code |-> code, codeVerifier |-> session.pkceCodes.verifier,
   redirectUri |-> AUTH_REDIRECT_URI]

RouterSigninThrows(session) == session.pkceCodes = NoPkce

RouterSigninStart(r, cookie, code, state) ==
  /\ Free(r)
  /\ served < MaxRequests
  /\ served' = served + 1
  /\ Handler("/signin") = "router_signin"
  /\ SidAvailable(cookie)
  /\ Issued(code)
  /\ reqs' = [reqs EXCEPT ![r] =
                IF RouterSigninThrows(Load(cookie))
                THEN [Receive(r, "/signin", cookie, code, state) EXCEPT
                        !.pc = "unanswered"]
                ELSE [Receive(r, "/signin", cookie, code, state) EXCEPT
                        !.pc = "awaitToken",
                        !.tokenRequests = 1,
                        !.tokenRequest = RouterTokenRequest(code, Load(cookie))]]
  /\ UNCHANGED <<config, store, nextSid, nextVerifier,
                 codes, authUrls, latestVerifier, loggedOut>>

\* acquireTokenByCode settles: the user is stored in the session and the
\* browser sent to /account, or the error page is rendered.
\* A catch block that resets the session when the exchange fails.
RouterSigninSessionResetOnError(session, tokenRequest, outcome) ==
  IF outcome = "ok"
  THEN [session EXCEPT !.user = TokenOf(tokenRequest.code)]
  ELSE EmptySession

RouterSigninSession(session, tokenRequest, outcome) ==
  IF outcome = "ok"
  THEN [session EXCEPT !.user = TokenOf(tokenRequest.code)]
  ELSE session

\* console.log('Session after login:', {user: req.session.user, ...}) writes
\* the user just stored, access token included, to the log.
RouterSigninLogged(session, outcome) ==
  IF outcome = "ok" THEN session.user.accessToken ELSE 0

RouterSigninResponse(outcome) ==
  IF outcome = "ok" THEN Redirect("/account") ELSE Render("error", NoUser)

RouterSigninRespond(r, outcome) ==
  /\ reqs[r].pc = "awaitToken"
  /\ reqs[r].handler = "router_signin"
  /\ outcome \in Outcomes(reqs[r].tokenRequest)
  /\ codes' = Redeem(reqs[r].tokenRequest, outcome, reqs[r].sid)
  /\ LET session == RouterSigninSession(reqs[r].session, reqs[r].tokenRequest, outcome)
     IN EndResponse(r, [reqs[r] EXCEPT !.session = session,
                                       !.logged = RouterSigninLogged(session, outcome)],
                    RouterSigninResponse(outcome), outcome)
  /\ UNCHANGED <<config, nextVerifier, served, loggedOut>>

\* req.session.destroy(): the request loses its session and the store the
\* record of that session id.  Once the store calls back, the logout of that
\* session has completed.
Destroyed(q) == IF q.sid # 0 THEN loggedOut \cup {q.sid} ELSE loggedOut

\* A logout that gives up when the provider's logout URL cannot be built.
DestroyWhenConfigured(r, cookie) ==
  /\ reqs' = [reqs EXCEPT ![r] =
                [Receive(r, "/logout", cookie, 0, 0) EXCEPT
                   !.session = NoSession, !.loaded = NoSession, !.pc = "destroyed"]]
  /\ store' = IF Known(cookie) /\ WEBSITE_HOSTNAME /\ AZURE_TENANT_ID
              THEN [store EXCEPT ![cookie] = NoSession]
              ELSE store

\* A logout that clears the whole store.
DestroyEverySession(r, cookie) ==
  /\ reqs' = [reqs EXCEPT ![r] =
                [Receive(r, "/logout", cookie, 0, 0) EXCEPT
                   !.session = NoSession, !.loaded = NoSession, !.pc = "destroyed"]]
  /\ store' = IF Known(cookie) THEN [s \in Sids |-> NoSession] ELSE store

Destroy(r, cookie) ==
  /\ reqs' = [reqs EXCEPT ![r] =
                [Receive(r, "/logout", cookie, 0, 0) EXCEPT
                   !.session = NoSession, !.loaded = NoSession, !.pc = "destroyed"]]
  /\ store' = IF Known(cookie) THEN [store EXCEPT ![cookie] = NoSession] ELSE store

RouterLogoutDestroy(r, cookie) ==
  /\ Free(r)
  /\ served < MaxRequests
  /\ served' = served + 1
  /\ Handler("/logout") = "router_logout"
  /\ Destroy(r, cookie)
  /\ UNCHANGED <<config, nextSid, nextVerifier, codes, authUrls, latestVerifier,
                 loggedOut>>

\* The store has destroyed the record: the callback redirects to the home page.
RouterLogoutRespond(r) ==
  /\ reqs[r].pc = "destroyed"
  /\ reqs[r].handler = "router_logout"
  /\ EndResponse(r, reqs[r], Redirect("/"), "none")
  /\ loggedOut' = Destroyed(reqs[r])
  /\ UNCHANGED <<config, nextVerifier, codes, served>>

\* GET /account behind the guard: the account page with the session's user,
\* or a redirect to /login.
\* console.log('Account route - session user:', req.session.user), behind
\* the guard.
RouterAccountLogged(session) ==
  IF ensureAuthenticated(session) THEN session.user.accessToken ELSE 0

RouterAccountResponse(session) ==
  IF ensureAuthenticated(session)
  THEN Render("account", session.user)
  ELSE Redirect("/login")

\* A guard that wipes the session it turns away.
RouterAccountGuardWipes(r, cookie) ==
  /\ Free(r)
  /\ served < MaxRequests
  /\ served' = served + 1
  /\ Handler("/account") = "router_account"
  /\ SidAvailable(cookie)
  /\ EndResponse(r, [Receive(r, "/account", cookie, 0, 0) EXCEPT
                       !.session = IF ensureAuthenticated(Load(cookie))
                                   THEN Load(cookie)
                                   ELSE [EmptySession EXCEPT !.codeVerifier = 1]],
                 RouterAccountResponse(Load(cookie)), "none")
  /\ UNCHANGED <<config, nextVerifier, codes, loggedOut>>

RouterAccount(r, cookie) ==
  /\ Free(r)
  /\ served < MaxRequests
  /\ served' = served + 1
  /\ Handler("/account") = "router_account"
  /\ EndResponse(r, [Receive(r, "/account", cookie, 0, 0) EXCEPT
                       !.logged = RouterAccountLogged(Load(cookie))],
                 RouterAccountResponse(Load(cookie)), "none")
  /\ UNCHANGED <<config, nextVerifier, codes, loggedOut>>

\* ------------------------------------------- the entry point, part_003
\* The entry point's redirect URI, written out in /login and in /signin.
InlineRedirectUri ==
  "https://nodejs-demoapp.lemonrock-97154e27.canadacentral.azurecontainerapps.io/signin"

\* The entry point's guard: req.session.accessToken.
inlineEnsureAuthenticated(session) == session.exists /\ session.accessToken # 0

\* GET /login up to the call of getAuthCodeUrl.
InlineLoginVerifier(session, codeVerifier) ==
  [session EXCEPT !.codeVerifier = codeVerifier]

InlineLoginStart(r, cookie) ==
  /\ Free(r)
  /\ served < MaxRequests
  /\ served' = served + 1
  /\ Handler("/login") = "inline_login"
  /\ SidAvailable(cookie)
  /\ nextVerifier <= MaxVerifier
  /\ reqs' = [reqs EXCEPT ![r] =
                [Receive(r, "/login", cookie, 0, 0) EXCEPT
                   !.session = InlineLoginVerifier(Load(cookie), nextVerifier),
                   !.pc = "awaitAuthCodeUrl"]]
  /\ nextVerifier' = nextVerifier + 1
  /\ UNCHANGED <<config, store, nextSid, codes, authUrls, latestVerifier, loggedOut>>

\* The code challenge is a local of the handler, derived from the verifier.
InlineLoginResponse(session, ok) ==
  IF ok
  THEN [Redirect("authCodeUrl") EXCEPT
          !.redirectUri = InlineRedirectUri,
          !.codeChallenge = generateCodeChallenge(session.codeVerifier),
          !.codeChallengeMethod = "S256"]
  ELSE Send("Authentication initialization failed")

InlineLoginRespond(r, ok) ==
  /\ reqs[r].pc = "awaitAuthCodeUrl"
  /\ reqs[r].handler = "inline_login"
  /\ EndResponse(r, reqs[r], InlineLoginResponse(reqs[r].session, ok), "none")
  /\ UNCHANGED <<config, nextVerifier, codes, served, loggedOut>>

\* GET /signin up to the call of acquireTokenByCode.
InlineTokenRequest(code, session) ==
  [code |-> code, codeVerifier |-> session.codeVerifier, redirectUri |-> InlineRedirectUri]

InlineSigninStart(r, cookie, code, state) ==
  /\ Free(r)
  /\ served < MaxRequests
  /\ served' = served + 1
  /\ Handler("/signin") = "inline_signin"
  /\ SidAvailable(cookie)
  /\ Issued(code)
  /\ reqs' = [reqs EXCEPT ![r] =
                [Receive(r, "/signin", cookie, code, state) EXCEPT
                   !.pc = "awaitToken",
                   !.tokenRequests = 1,
                   !.tokenRequest = InlineTokenRequest(code, Load(cookie))]]
  /\ UNCHANGED <<config, store, nextSid, nextVerifier,
                 codes, authUrls, latestVerifier, loggedOut>>

\* acquireTokenByCode settles: the access token is stored in the session and
\* the browser sent to the home page, or the browser is sent back to /login.
\* A callback that stores whatever the provider answered.
InlineSigninSessionWhateverTheOutcome(session, tokenRequest, outcome) ==
  [session EXCEPT !.accessToken = TokenOf(tokenRequest.code).accessToken]

InlineSigninSession(session, tokenRequest, outcome) ==
  IF outcome = "ok"
  THEN [session EXCEPT !.accessToken = TokenOf(tokenRequest.code).accessToken]
  ELSE session

InlineSigninResponse(outcome) ==
  IF outcome = "ok" THEN Redirect("/") ELSE Redirect("/login")

InlineSigninRespond(r, outcome) ==
  /\ reqs[r].pc = "awaitToken"
  /\ reqs[r].handler = "inline_signin"
  /\ outcome \in Outcomes(reqs[r].tokenRequest)
  /\ codes' = Redeem(reqs[r].tokenRequest, outcome, reqs[r].sid)
  /\ EndResponse(r, [reqs[r] EXCEPT !.session =
                       InlineSigninSession(reqs[r].session, reqs[r].tokenRequest, outcome)],
                 InlineSigninResponse(outcome), outcome)
  /\ UNCHANGED <<config, nextVerifier, served, loggedOut>>

\* GET / and GET /protected behind the entry point's guard.
InlineGuardedResponse(route, session) ==
  IF inlineEnsureAuthenticated(session)
  THEN IF route = "/" THEN Render("index", session.user)
       ELSE Send("This is a protected route.")
  ELSE Redirect("/login")

InlineGuarded(r, route, cookie) ==
  /\ Free(r)
  /\ served < MaxRequests
  /\ served' = served + 1
  /\ Handler(route) = "inline_guarded"
  /\ EndResponse(r, Receive(r, route, cookie, 0, 0),
                 InlineGuardedResponse(route, Load(cookie)), "none")
  /\ UNCHANGED <<config, nextVerifier, codes, loggedOut>>

InlineLogoutDestroy(r, cookie) ==
  /\ Free(r)
  /\ served < MaxRequests
  /\ served' = served + 1
  /\ Handler("/logout") = "inline_logout"
  /\ Destroy(r, cookie)
  /\ UNCHANGED <<config, nextSid, nextVerifier, codes, authUrls, latestVerifier,
                 loggedOut>>

\* The store has destroyed the record: the callback redirects to the
\* provider's logout URL.  Both of its parts are template literals over the
\* environment, which put "undefined" where a variable is not set.
logoutUri == IF WEBSITE_HOSTNAME THEN "https://WEBSITE_HOSTNAME" ELSE "https://undefined"

logoutUrl ==
  [Redirect("logoutUrl") EXCEPT
     !.post_logout_redirect_uri = logoutUri,
     !.tenant = IF AZURE_TENANT_ID THEN "AZURE_TENANT_ID" ELSE "undefined"]

InlineLogoutRespond(r) ==
  /\ reqs[r].pc = "destroyed"
  /\ reqs[r].handler = "inline_logout"
  /\ EndResponse(r, reqs[r], logoutUrl, "none")
  /\ loggedOut' = Destroyed(reqs[r])
  /\ UNCHANGED <<config, nextVerifier, codes, served>>

\* ------------------------------------------- the entry point, part_002
\* GET / of part_002, registered ahead of the session middleware and of
\* every guard: the home page, for anybody, rendered without a session.
Root(r, cookie) ==
  /\ Free(r)
  /\ served < MaxRequests
  /\ served' = served + 1
  /\ Handler("/") = "root"
  /\ EndResponse(r, Receive(r, "/", cookie, 0, 0), Render("index", NoUser), "none")
  /\ UNCHANGED <<config, nextVerifier, codes, loggedOut>>

\* The catch-all route and the error handler: no route serves the request.
NotFound(r, route, cookie) ==
  /\ Free(r)
  /\ served < MaxRequests
  /\ served' = served + 1
  /\ Handler(route) = "notfound"
  /\ EndResponse(r, Receive(r, route, cookie, 0, 0),
                 Render("error", AccountOnly(Load(cookie).user)), "none")
  /\ UNCHANGED <<config, nextVerifier, codes, loggedOut>>

\* The cookies a browser can present: none, or a session id handed out.
Cookies == 0..(nextSid - 1)

Next ==
  \/ \E r \in Reqs : Retire(r)
  \/ \E authCodeUrl \in authUrls, c \in Codes : ProviderAuthorize(authCodeUrl, c)
  \/ \E r \in Reqs, cookie \in Cookies : RouterLoginStart(r, cookie)
  \/ \E r \in Reqs, ok \in BOOLEAN : RouterLoginRespond(r, ok)
  \/ \E r \in Reqs, cookie \in Cookies, code \in 0..MaxCodes, state \in Sids :
       RouterSigninStart(r, cookie, code, state)
  \/ \E r \in Reqs, outcome \in {"ok", "invalid_grant", "network_error"} :
       RouterSigninRespond(r, outcome)
  \/ \E r \in Reqs, cookie \in Cookies : RouterLogoutDestroy(r, cookie)
  \/ \E r \in Reqs : RouterLogoutRespond(r)
  \/ \E r \in Reqs, cookie \in Cookies : RouterAccount(r, cookie)
  \/ \E r \in Reqs, cookie \in Cookies : InlineLoginStart(r, cookie)
  \/ \E r \in Reqs, ok \in BOOLEAN : InlineLoginRespond(r, ok)
  \/ \E r \in Reqs, cookie \in Cookies, code \in 0..MaxCodes, state \in Sids :
       InlineSigninStart(r, cookie, code, state)
  \/ \E r \in Reqs, outcome \in {"ok", "invalid_grant", "network_error"} :
       InlineSigninRespond(r, outcome)
  \/ \E r \in Reqs, route \in Routes, cookie \in Cookies : InlineGuarded(r, route, cookie)
  \/ \E r \in Reqs, cookie \in Cookies : InlineLogoutDestroy(r, cookie)
  \/ \E r \in Reqs : InlineLogoutRespond(r)
  \/ \E r \in Reqs, cookie \in Cookies : Root(r, cookie)
  \/ \E r \in Reqs, route \in Routes, cookie \in Cookies : NotFound(r, route, cookie)

Spec == Init /\ [][Next]_vars

\* ------------------------------------------------- the session's state
\* The session record of the specification, read off the session object:
\* the PKCE data is pkceCodes (router) or codeVerifier (entry point), the
\* identity is user.account, the access token user.accessToken (router) or
\* accessToken (entry point).
HasPkce(session) == session.pkceCodes.verifier # 0 \/ session.codeVerifier # 0
HasIdentity(session) == session.user.account # "undefined"
HasAccessToken(session) == session.user.accessToken # 0 \/ session.accessToken # 0
Authenticated(session) ==
  session.exists /\ HasIdentity(session) /\ HasAccessToken(session)

\* The session holds the access token that the exchange of this code returned.
HoldsTokenOf(session, code) ==
  /\ code \in Codes
  /\ \/ session.user.accessToken = TokenOf(code).accessToken
     \/ session.accessToken = TokenOf(code).accessToken

Callback(q) == q.handler \in {"router_signin", "inline_signin"}
Guarded(q) == q.handler \in {"router_account", "inline_guarded"}
Answered(q) == q.pc = "done"

\* The answer of a callback whose exchange did not succeed: the router's
\* error page, the entry point's redirect to /login.
InvalidGrantResponse(q) ==
  IF q.handler = "router_signin"
  THEN q.response = Render("error", NoUser)
  ELSE q.response = Redirect("/login")

\* ---------------------------------------------------------------- claims

\* C1: a callback with a valid code and the matching verifier, after a login
\* on the same session, ends with the session Authenticated: identity and
\* access token populated and the PKCE data cleared.
C1_CallbackEndsAuthenticatedPkceCleared ==
  \A r \in Reqs :
    (Callback(reqs[r]) /\ Answered(reqs[r]) /\ reqs[r].grant = "ok")
      => /\ Authenticated(reqs[r].session)
         /\ ~HasPkce(reqs[r].session)

\* C2: a callback whose state parameter is not the one expected by the
\* session that presents the cookie (the session's identifier) never makes
\* that session Authenticated, whatever its code: no exchange succeeds for it
\* and it leaves the session without identity and without access token.
C2_StateMismatchNeverAuthenticates ==
  \A r \in Reqs :
    (Callback(reqs[r]) /\ Answered(reqs[r]) /\ reqs[r].state # reqs[r].sid)
      => /\ reqs[r].grant # "ok"
         /\ ~HasAccessToken(reqs[r].session)
         /\ ~HasIdentity(reqs[r].session)

\* C3: when two callbacks race on the same session with the same code, the
\* one that wins leaves the record without PKCE data, so that the other one
\* observes it erased.
C3_RaceLoserObservesPkceErased ==
  \A r, q \in Reqs :
    (/\ r # q
     /\ Callback(reqs[r]) /\ Answered(reqs[r]) /\ reqs[r].grant = "ok"
     /\ Callback(reqs[q]) /\ reqs[q].pc = "awaitToken"
     /\ reqs[q].sid = reqs[r].sid /\ reqs[q].code = reqs[r].code)
      => ~HasPkce(store[reqs[r].sid])

\* C4: once a callback has attempted a code exchange, successful or not, the
\* record of its session holds no PKCE verifier.
C4_VerifierErasedAfterExchange ==
  \A r \in Reqs :
    (/\ Callback(reqs[r]) /\ Answered(reqs[r])
     /\ reqs[r].grant # "none" /\ reqs[r].sid # 0)
      => ~HasPkce(store[reqs[r].sid])

\* C5: a callback on a session that already holds the token obtained with
\* the same code does not contact the provider's token endpoint.
C5_SecondCallbackSkipsProvider ==
  \A r \in Reqs :
    (Callback(reqs[r]) /\ HoldsTokenOf(reqs[r].loaded, reqs[r].code))
      => /\ reqs[r].pc # "awaitToken"
         /\ reqs[r].grant = "none"

\* C6: every session record of the store holds exactly one of the PKCE data
\* and the identity with its access token.
C6_PkceXorIdentity ==
  \A s \in Sids :
    store[s].exists
      => (HasPkce(store[s]) <=> ~(HasIdentity(store[s]) /\ HasAccessToken(store[s])))

\* C7: a request to a guarded route that presents the cookie of a session on
\* which a logout has completed is redirected to /login.
C7_LoggedOutCookieRedirected ==
  \A r \in Reqs :
    (Guarded(reqs[r]) /\ Answered(reqs[r]) /\ reqs[r].cookie \in loggedOut)
      => reqs[r].response = Redirect("/login")

\* C8: a request to a guarded route is redirected to /login when its session
\* is not Authenticated, and reaches the handler, with the identity of the
\* session, when it is.
C8_GuardAdmitsExactlyAuthenticated ==
  \A r \in Reqs :
    (Guarded(reqs[r]) /\ Answered(reqs[r]))
      => IF Authenticated(reqs[r].session)
         THEN /\ reqs[r].response.kind \in {"render", "send"}
              /\ reqs[r].response.kind = "render"
                   => reqs[r].response.user.account = reqs[r].session.user.account
         ELSE reqs[r].response = Redirect("/login")

\* C9: a callback that repeats the code with which its session was
\* authenticated is answered as a failed exchange and leaves the session as
\* it found it: the identity and the access token are unchanged and nothing
\* is written to the store.
C9_DuplicateCallbackKeepsSession ==
  \A r \in Reqs :
    (/\ Callback(reqs[r]) /\ Answered(reqs[r])
     /\ HoldsTokenOf(reqs[r].loaded, reqs[r].code))
      => /\ reqs[r].grant \in {"invalid_grant", "network_error"}
         /\ InvalidGrantResponse(reqs[r])
         /\ reqs[r].session = reqs[r].loaded
         /\ ~SaveNeeded(reqs[r])

C9_Witness ==
  \E r \in Reqs :
    /\ Callback(reqs[r]) /\ Answered(reqs[r])
    /\ HoldsTokenOf(reqs[r].loaded, reqs[r].code)
    /\ reqs[r].grant = "invalid_grant"
    /\ reqs[r].sid # 0 /\ store[reqs[r].sid] = reqs[r].loaded

\* C10: a callback on a session that holds no verifier is answered, with the
\* answer of a failed exchange.
C10_NoVerifierCallbackAnswered ==
  \A r \in Reqs :
    (Callback(reqs[r]) /\ ~HasPkce(reqs[r].loaded))
      => /\ reqs[r].pc # "unanswered"
         /\ Answered(reqs[r]) => InvalidGrantResponse(reqs[r])

\* C11: once a logout of a session has completed, nothing is retrievable
\* under that session's identifier: the store holds no record for it, and so
\* no identity, access token or verifier, whatever other request of the same
\* session was in flight during the logout.
C11_LoggedOutRecordStaysDestroyed ==
  \A s \in loggedOut :
    /\ ~store[s].exists
    /\ ~HasPkce(store[s])
    /\ ~HasIdentity(store[s])
    /\ ~HasAccessToken(store[s])

\* The provider's calls settle (with a result, a failure or a timeout), the
\* store calls back, and a response that has ended leaves the server: every
\* continuation of a handler that is ready to run does run.
Settle ==
  \/ \E r \in Reqs : Retire(r)
  \/ \E r \in Reqs, ok \in BOOLEAN : RouterLoginRespond(r, ok)
  \/ \E r \in Reqs, outcome \in {"ok", "invalid_grant", "network_error"} :
       RouterSigninRespond(r, outcome)
  \/ \E r \in Reqs : RouterLogoutRespond(r)
  \/ \E r \in Reqs, ok \in BOOLEAN : InlineLoginRespond(r, ok)
  \/ \E r \in Reqs, outcome \in {"ok", "invalid_grant", "network_error"} :
       InlineSigninRespond(r, outcome)
  \/ \E r \in Reqs : InlineLogoutRespond(r)

FairSpec == Spec /\ WF_vars(Settle)

\* PendingAuthorization: the session holds a verifier and no access token.
PendingAuthorization(session) ==
  session.exists /\ HasPkce(session) /\ ~HasAccessToken(session)

\* C12: a session in PendingAuthorization whose callback has arrived and is
\* exchanging the code eventually leaves PendingAuthorization, also when the
\* exchange fails or times out.
C12_ExchangeLeavesPending ==
  \A s \in Sids :
    (/\ PendingAuthorization(store[s])
     /\ \E r \in Reqs : /\ Callback(reqs[r]) /\ reqs[r].pc = "awaitToken"
                        /\ reqs[r].sid = s)
      ~> ~PendingAuthorization(store[s])

\* C13: the record of an Authenticated session changes in one way only: it
\* goes away.  No request replaces or adds to its identity, access token or
\* PKCE data.
C13_AuthenticatedOnlyToAnonymous ==
  [][\A s \in Sids :
       Authenticated(store[s]) => (store'[s] = store[s] \/ ~store'[s].exists)]_vars

Login(q) == q.handler \in {"router_login", "inline_login"}

\* C14: a login request on a session that is already Authenticated leaves
\* the session as it found it (no PKCE pair is generated or stored) and is
\* answered with a redirect to the authenticated landing page.
C14_LoginOnAuthenticatedIsNoOp ==
  \A r \in Reqs :
    (Login(reqs[r]) /\ Answered(reqs[r]) /\ Authenticated(reqs[r].loaded))
      => /\ reqs[r].session = reqs[r].loaded
         /\ reqs[r].response \in {Redirect("/account"), Redirect("/")}

\* C15: without a client identifier in the configuration no authentication
\* route is registered: no request reaches a login, callback, logout or
\* guarded handler, no session gets a verifier and no code is exchanged.
C15_NoClientIdNoAuthRoutes ==
  ~ENTRA_APP_ID
    => /\ \A r \in Reqs : reqs[r].handler \in {"none", "notfound", "root"}
       /\ \A s \in Sids : ~HasPkce(store[s])
       /\ \A c \in Codes : ~codes[c].redeemed

Logout(q) == q.handler \in {"router_logout", "inline_logout"}

\* C16: whatever the configuration, and so also when the provider's logout
\* URL cannot be built from it, a logout request deletes the record of its
\* session from the store and gives up its own copy, and the step that
\* answers it (the federated redirect) leaves the store as the deletion
\* left it.
C16_LogoutDestroysWhateverTheConfiguration ==
  [][\A r \in Reqs :
       /\ (reqs[r].pc = "idle" /\ Logout(reqs'[r]))
            => /\ reqs'[r].pc = "destroyed"
               /\ ~reqs'[r].session.exists
               /\ reqs'[r].cookie # 0 => ~store'[reqs'[r].cookie].exists
       /\ (Logout(reqs[r]) /\ reqs[r].pc = "destroyed" /\ reqs'[r].pc # "destroyed")
            => /\ Answered(reqs'[r])
               /\ store' = store]_vars

C16_Witness ==
  \E r \in Reqs :
    /\ Logout(reqs[r]) /\ Answered(reqs[r])
    /\ ~WEBSITE_HOSTNAME /\ ~AZURE_TENANT_ID
    /\ reqs[r].response.post_logout_redirect_uri = "https://undefined"
    /\ reqs[r].sid # 0 /\ ~store[reqs[r].sid].exists

\* C17: every logout request, whichever handler serves it, has destroyed its
\* session when it is answered, and is answered with a redirect to the
\* provider's end-session endpoint whose post-logout redirect URI is the
\* application's own address (the configuration names that address).
C17_LogoutRedirectsToEndSession ==
  \A r \in Reqs :
    (Logout(reqs[r]) /\ Answered(reqs[r]) /\ WEBSITE_HOSTNAME /\ AZURE_TENANT_ID)
      => /\ ~reqs[r].session.exists
         /\ reqs[r].response.kind = "redirect"
         /\ reqs[r].response.target = "logoutUrl"
         /\ reqs[r].response.post_logout_redirect_uri = "https://WEBSITE_HOSTNAME"

\* The properties the handlers set on a session.
SessionFields == {"pkceCodes", "codeVerifier", "user", "accessToken"}

\* C18: updates of a session record are atomic read-modify-write.  A request
\* that ends after another request of the same session has written the
\* record changes only what it modified itself: a property it did not touch
\* keeps the value the record has, and is not put back to the value the
\* request loaded.
C18_NoLostUpdate ==
  [][\A r \in Reqs : \A f \in SessionFields :
       (/\ reqs[r].pc \in {"awaitAuthCodeUrl", "awaitToken"}
        /\ Answered(reqs'[r])
        /\ reqs[r].sid # 0
        /\ store[reqs[r].sid].exists
        /\ reqs'[r].session[f] = reqs[r].loaded[f])
         => store'[reqs[r].sid][f] = store[reqs[r].sid][f]]_vars

\* C19: the access-control middleware only reads.  A request to a guarded
\* route, whether it is redirected or reaches its handler, ends with the
\* session it was given, and neither the store nor the identifiers the store
\* hands out change.
C19_GuardNeverMutatesSession ==
  [][\A r \in Reqs :
       (reqs[r].pc = "idle" /\ Guarded(reqs'[r]))
         => /\ Answered(reqs'[r])
            /\ reqs'[r].session = reqs'[r].loaded
            /\ reqs'[r].loaded = Load(reqs'[r].cookie)
            /\ store' = store
            /\ nextSid' = nextSid]_vars

C19_Witness ==
  \E r \in Reqs :
    /\ Guarded(reqs[r]) /\ Answered(reqs[r])
    /\ reqs[r].response.kind \in {"render", "send"}
    /\ HasPkce(reqs[r].session) /\ HasAccessToken(reqs[r].session)
    /\ reqs[r].sid # 0 /\ store[reqs[r].sid] = reqs[r].session

\* Anonymous: the session holds no PKCE data, identity or access token.
Anonymous(session) ==
  ~HasPkce(session) /\ ~HasIdentity(session) /\ ~HasAccessToken(session)

\* The verifier a session holds, wherever the implementation keeps it.
StoredVerifier(session) ==
  IF session.pkceCodes.verifier # 0 THEN session.pkceCodes.verifier
  ELSE session.codeVerifier

\* C20: a login on an Anonymous session that redirects to the provider has
\* stored a PKCE verifier in the session, which is then in
\* PendingAuthorization, and its authorization URL carries the S256
\* challenge of that verifier, code_challenge_method S256 and a state
\* parameter bound to the session.
C20_LoginStoresPkceAndSendsChallengeAndState ==
  \A r \in Reqs :
    (/\ Login(reqs[r]) /\ Answered(reqs[r]) /\ Anonymous(reqs[r].loaded)
     /\ reqs[r].response.target = "authCodeUrl")
      => /\ PendingAuthorization(reqs[r].session)
         /\ store[reqs[r].sid] = reqs[r].session
         /\ reqs[r].response.kind = "redirect"
         /\ reqs[r].response.codeChallenge
              = generateCodeChallenge(StoredVerifier(reqs[r].session))
         /\ reqs[r].response.codeChallengeMethod = "S256"
         /\ reqs[r].response.state # 0

\* C21: a callback that exchanges its code has sent one request to the token
\* endpoint, and that request carries the code of the callback, the verifier
\* the session held when the callback arrived and, for a code the provider
\* issued, the redirect URI of the authorization request that obtained it.
C21_OneTokenRequestSameRedirectUri ==
  \A r \in Reqs :
    (Callback(reqs[r]) /\ (reqs[r].pc = "awaitToken" \/ Answered(reqs[r])))
      => /\ reqs[r].tokenRequests = 1
         /\ reqs[r].tokenRequest.code = reqs[r].code
         /\ reqs[r].tokenRequest.codeVerifier = StoredVerifier(reqs[r].loaded)
         /\ reqs[r].code \in Codes
              => reqs[r].tokenRequest.redirectUri = codes[reqs[r].code].redirectUri

C21_Witness ==
  \E r \in Reqs :
    /\ Callback(reqs[r]) /\ Answered(reqs[r]) /\ reqs[r].grant = "ok"
    /\ reqs[r].tokenRequests = 1
    /\ reqs[r].tokenRequest.codeVerifier # 0
    /\ reqs[r].tokenRequest.redirectUri = codes[reqs[r].code].redirectUri

\* C22: a session record holds an access token only while it is
\* Authenticated, and no request writes an access token to the log or hands
\* one to the view it renders.
C22_AccessTokenNeverLoggedOrRendered ==
  /\ \A s \in Sids :
       (store[s].exists /\ HasAccessToken(store[s])) => Authenticated(store[s])
  /\ \A r \in Reqs :
       /\ reqs[r].logged = 0
       /\ reqs[r].response.user.accessToken = 0

\* C23: sessions are independent.  A step of a request changes no record of
\* the store but the one of the request's own session, and a step of no
\* request changes no record at all, however the requests of different
\* sessions interleave.
C23_OtherSessionsUnchanged ==
  [][/\ \A r \in Reqs :
          (reqs'[r] # reqs[r] /\ reqs'[r].pc # "idle")
            => \A s \in Sids : s # reqs'[r].sid => store'[s] = store[s]
     /\ (\A r \in Reqs : reqs'[r] = reqs[r] \/ reqs'[r].pc = "idle")
          => store' = store]_vars

C23_Witness ==
  \E r, q \in Reqs :
    /\ reqs[r].sid # 0 /\ reqs[q].sid # 0 /\ reqs[r].sid # reqs[q].sid
    /\ reqs[r].pc = "awaitToken"
    /\ Answered(reqs[q]) /\ SaveNeeded(reqs[q])
    /\ HasPkce(store[reqs[r].sid])
    /\ store[reqs[q].sid] = reqs[q].session

\* The session holds an identity or an access token.
HasUserOrToken(session) ==
  session.exists /\ (HasIdentity(session) \/ HasAccessToken(session))

\* What the session holds is what the exchange of a code returned, and that
\* exchange succeeded for a callback of session sid.
ExchangedFor(session, sid) ==
  \E c \in Codes :
    /\ codes[c].redeemed /\ codes[c].session = sid
    /\ HoldsTokenOf(session, c)
    /\ HasIdentity(session) => session.user = TokenOf(c)

\* C24: a session has session.user or session.accessToken set only if a code
\* exchange made by a callback of that same session succeeded, and what it
\* holds is what that exchange returned.  A callback whose exchange failed
\* leaves its session as it found it, and no other handler sets either
\* property.
C24_AuthenticatedOnlyBySuccessfulExchange ==
  /\ \A s \in Sids : HasUserOrToken(store[s]) => ExchangedFor(store[s], s)
  /\ \A r \in Reqs :
       /\ (HasUserOrToken(reqs[r].session) /\ ~(Callback(reqs[r]) /\ reqs[r].pc = "awaitToken"))
            => ExchangedFor(reqs[r].session, reqs[r].sid)
       /\ (Callback(reqs[r]) /\ Answered(reqs[r]) /\ reqs[r].grant # "ok")
            => reqs[r].session = reqs[r].loaded
       /\ (~Callback(reqs[r]) /\ reqs[r].session.exists)
            => /\ reqs[r].session.user = reqs[r].loaded.user
               /\ reqs[r].session.accessToken = reqs[r].loaded.accessToken

C24_Witness ==
  \E r \in Reqs :
    /\ Callback(reqs[r]) /\ Answered(reqs[r]) /\ reqs[r].grant # "ok"
    /\ reqs[r].tokenRequest.codeVerifier # 0
    /\ reqs[r].sid # 0 /\ ~HasUserOrToken(store[reqs[r].sid])
    /\ \E s \in Sids : HasUserOrToken(store[s]) /\ ExchangedFor(store[s], s)

\* C25: the verifier a callback sends to the token endpoint is the one that
\* the most recent /login of its session generated.
C25_LatestVerifierIsExchanged ==
  [][\A r \in Reqs :
       (/\ reqs[r].pc = "idle"
        /\ Callback(reqs'[r]) /\ reqs'[r].pc = "awaitToken"
        /\ reqs'[r].sid # 0)
         => reqs'[r].tokenRequest.codeVerifier = latestVerifier[reqs'[r].sid]]_vars

\* C26: the session that a successful callback leaves, whichever /signin
\* handler served it, is admitted by both guards: the entry point's and the
\* router's.
C26_BothGuardsAdmitAfterCallback ==
  \A r \in Reqs :
    (Callback(reqs[r]) /\ Answered(reqs[r]) /\ reqs[r].grant = "ok")
      => /\ inlineEnsureAuthenticated(reqs[r].session)
         /\ ensureAuthenticated(reqs[r].session)

\* C27: every request to /login, /signin or /logout that the server has
\* received is eventually answered, whatever the state of its session and
\* whatever the outcome of the provider's call.
C27_AuthRequestsAnswered ==
  \A r \in Reqs :
    ((Login(reqs[r]) \/ Callback(reqs[r]) \/ Logout(reqs[r])) /\ ~Answered(reqs[r]))
      ~> Answered(reqs[r])
====
